---- MODULE Spec2Model ----
(***************************************************************************)
(* Model of gpt_engineer/steps.py: the step functions, the STEPS registry  *)
(* and the driver loop that runs a registered workflow step by step.       *)
(*                                                                         *)
(* A text is a sequence of characters (one-character strings).  A fixed    *)
(* literal of the program that no step inspects (an instruction sentence,  *)
(* an identity template) is carried as one symbol of the sequence.         *)
(* The annotations of line 54 (List, Dict, never imported) are not         *)
(* modelled: the bodies of the functions are.                              *)
(***************************************************************************)
EXTENDS Integers, Sequences, FiniteSets, TLC

VARIABLES wf, idx, status, dbs, hist, cl

vars == <<wf, idx, status, dbs, hist, cl>>

(***************************************************************************)
(* Bounds of the model.                                                    *)
(***************************************************************************)
\* number of distinct replies the backend may give to a generation request
NReplies == 2
\* cap on the backend exchanges of one run of clarify (the code has none)
MaxRounds == 2
\* cap on the calls of perform_ai_task in the specification SpecTask
MaxCalls == 2

(***************************************************************************)
(* Texts.                                                                  *)
(***************************************************************************)
Whitespace == {" ", "\n", "\t"}

UpperCase == <<"A","B","C","D","E","F","G","H","I","J","K","L","M",
               "N","O","P","Q","R","S","T","U","V","W","X","Y","Z">>

LowerCase == <<"a","b","c","d","e","f","g","h","i","j","k","l","m",
               "n","o","p","q","r","s","t","u","v","w","x","y","z">>

Last(s) == s[Len(s)]

\* str.lower() on one character
LowerChar(c) ==
  IF \E i \in 1..Len(UpperCase) : UpperCase[i] = c
  THEN LowerCase[CHOOSE i \in 1..Len(UpperCase) : UpperCase[i] = c]
  ELSE c

\* str.lower()
lower(s) == [i \in 1..Len(s) |-> LowerChar(s[i])]

RECURSIVE lstrip(_)
lstrip(s) == IF s # <<>> /\ Head(s) \in Whitespace THEN lstrip(Tail(s)) ELSE s

RECURSIVE rstrip(_)
rstrip(s) ==
  IF s # <<>> /\ Last(s) \in Whitespace THEN rstrip(SubSeq(s, 1, Len(s) - 1)) ELSE s

\* str.strip()
strip(s) == rstrip(lstrip(s))

\* str.startswith(p)
startswith(s, p) == Len(s) >= Len(p) /\ SubSeq(s, 1, Len(p)) = p

RECURSIVE join(_, _)
\* sep.join(parts)
join(sep, parts) ==
  IF parts = <<>> THEN <<>>
  ELSE IF Len(parts) = 1 THEN parts[1]
  ELSE parts[1] \o sep \o join(sep, Tail(parts))

(***************************************************************************)
(* The pattern of gen_entrypoint, r"```\S*\n(.+?)```" under re.DOTALL.     *)
(***************************************************************************)
\* the grave accent; SANY accepts no string that holds the character itself
BQ == "bq"

IsFenceAt(s, i) ==
  i + 2 <= Len(s) /\ s[i] = BQ /\ s[i + 1] = BQ /\ s[i + 2] = BQ

RECURSIVE SkipNonSpace(_, _)
\* \S* is greedy and must be followed by \n: it takes the whole run of
\* non-whitespace characters from j on; the result is the index after the run
SkipNonSpace(s, j) ==
  IF j <= Len(s) /\ s[j] \notin Whitespace THEN SkipNonSpace(s, j + 1) ELSE j

RECURSIVE FindFence(_, _)
\* the first index >= k where a closing ``` starts, 0 when there is none
FindFence(s, k) ==
  IF k + 2 > Len(s) THEN 0
  ELSE IF IsFenceAt(s, k) THEN k
  ELSE FindFence(s, k + 1)

\* the match of the pattern that starts at index i, if there is one:
\* group 1 (.+?) is lazy, at least one character, any character (DOTALL)
MatchAt(s, i) ==
  IF ~IsFenceAt(s, i) THEN [ok |-> FALSE, group1 |-> <<>>, end |-> i]
  ELSE LET j == SkipNonSpace(s, i + 3) IN
       IF j > Len(s) \/ s[j] # "\n" THEN [ok |-> FALSE, group1 |-> <<>>, end |-> i]
       ELSE LET k == FindFence(s, j + 2) IN
            IF k = 0 THEN [ok |-> FALSE, group1 |-> <<>>, end |-> i]
            ELSE [ok |-> TRUE, group1 |-> SubSeq(s, j + 1, k - 1), end |-> k + 3]

RECURSIVE finditer(_, _)
\* re.finditer from index i on: the group 1 of every non-overlapping match,
\* leftmost first
finditer(s, i) ==
  IF i > Len(s) THEN <<>>
  ELSE LET m == MatchAt(s, i) IN
       IF m.ok THEN <<m.group1>> \o finditer(s, m.end)
       ELSE finditer(s, i + 1)

\* RunScript with the contents concatenated, no newline between them
RunScriptNoSeparator(content) == join(<<>>, finditer(content, 1))

\* the content gen_entrypoint writes to run.sh for a reply
RunScript(content) == join(<<"\n">>, finditer(content, 1))

(***************************************************************************)
(* The artifact store (DBs): five namespaces, each a mapping from the keys *)
(* present to their values.  A lookup of an absent key raises.             *)
(***************************************************************************)
Namespaces == {"identity", "input", "memory", "workspace", "logs"}

Has(db, key) == key \in DOMAIN db

\* db[key] = value
Put(db, key, value) ==
  [k \in (DOMAIN db) \cup {key} |-> IF k = key THEN value ELSE db[k]]

\* dbs.<ns>[key] = value
Store(d, ns, key, value) == [d EXCEPT ![ns] = Put(d[ns], key, value)]

(***************************************************************************)
(* The generation client (AI): the message helpers, start and next.  The   *)
(* reply of the backend is an input of the model.                          *)
(***************************************************************************)
fsystem(msg) == [role |-> "system", content |-> msg]

fuser(msg) == [role |-> "user", content |-> msg]

fassistant(msg) == [role |-> "assistant", content |-> msg]

\* what ai.next(messages, prompt) sends to the backend
Request(messages, prompt) == messages \o <<fuser(prompt)>>

\* ai.next(messages, prompt)
AiNext(messages, prompt, reply) ==
  Request(messages, prompt) \o <<fassistant(reply)>>

\* ai.next(messages), no prompt
AiNextBare(messages, reply) == messages \o <<fassistant(reply)>>

\* ai.start(system, user)
AiStart(system, user, reply) == AiNext(<<fsystem(system)>>, user, reply)

\* json.dumps of a conversation: the logged text, distinct from the list
dumps(messages) == [json |-> messages]

\* json.loads
loads(text) == text.json

\* to_files(chat, workspace): the whole text goes to all_output.txt; the
\* files it names are written under their own paths, which no step reads
to_files(chat, d) == Store(d, "workspace", "all_output.txt", chat)

(***************************************************************************)
(* The outcome of one call of a step: whether it raised a lookup failure   *)
(* (and for which entry), the store it leaves, the conversation it         *)
(* returns, the requests it sent to the backend in order, the entries it   *)
(* read and wrote, and what it did with the operator and the subprocess.   *)
(***************************************************************************)
NoIo == [loaded |-> <<>>, inputs |-> <<>>, ran |-> FALSE, rc |-> 0]

Raise(d, sent, writes, ns, key) ==
  [err |-> TRUE, missing |-> <<ns, key>>, dbs |-> d, ret |-> <<>>,
   sent |-> sent, reads |-> {}, writes |-> writes, io |-> NoIo]

Return(d, ret, sent, reads, writes, io) ==
  [err |-> FALSE, missing |-> <<>>, dbs |-> d, ret |-> ret,
   sent |-> sent, reads |-> reads, writes |-> writes, io |-> io]

(***************************************************************************)
(* Fixed literals of the program, one symbol each.                         *)
(***************************************************************************)
UsefulToKnow == <<"\nUseful to know:\n">>

Instructions == <<"Instructions: ">>

SpecificationHead == <<"Specification:\n\n">>

UnitTestsHead == <<"Unit tests:\n\n">>

ClarifySuffix == <<"\n\nIs anything else unclear? ...">>

ReiteratePrompt == <<"Based on the conversation so far, please reiterate ...">>

EntrypointSystem == <<"You will get information about a codebase ...">>

CodebaseHead == <<"Information about the codebase:\n\n">>

FixPrompt == <<"Please fix any errors in the code above.">>

(***************************************************************************)
(* The steps.  Every lookup is tested where the code performs it, so the   *)
(* order of lookups, requests and writes is the order of the code.         *)
(***************************************************************************)
setup_sys_prompt(d) ==
  d.identity["generate"] \o UsefulToKnow \o d.identity["philosophy"]

\* the first of the two templates of setup_sys_prompt that is absent
SysPromptMissing(d) ==
  IF ~Has(d.identity, "generate") THEN "generate"
  ELSE IF ~Has(d.identity, "philosophy") THEN "philosophy"
  ELSE "none"

SysPromptReads == {<<"identity", "generate">>, <<"identity", "philosophy">>}

simple_gen(d, reply) ==
  IF SysPromptMissing(d) # "none"
  THEN Raise(d, <<>>, {}, "identity", SysPromptMissing(d))
  ELSE IF ~Has(d.input, "main_prompt") THEN Raise(d, <<>>, {}, "input", "main_prompt")
  ELSE LET system == setup_sys_prompt(d)
           messages == AiStart(system, d.input["main_prompt"], reply)
       IN Return(to_files(Last(messages).content, d), messages,
                 <<Request(<<fsystem(system)>>, d.input["main_prompt"])>>,
                 SysPromptReads \cup {<<"input", "main_prompt">>},
                 {<<"workspace", "all_output.txt">>}, NoIo)

\* perform_ai_task that appends the reply to what the key held
perform_ai_task_append(d, messages, output_key, reply) ==
  IF ~Has(d.workspace, output_key) THEN Raise(d, <<>>, {}, "workspace", output_key)
  ELSE LET m1 == messages \o <<fassistant(d.workspace[output_key])>> IN
       IF ~Has(d.identity, "use_qa") THEN Raise(d, <<>>, {}, "identity", "use_qa")
       ELSE LET m2 == AiNext(m1, d.identity["use_qa"], reply)
                d1 == Store(d, "workspace", output_key,
                            d.workspace[output_key] \o Last(m2).content)
                d2 == to_files(d1.workspace[output_key], d1)
            IN Return(d2, m2, <<Request(m1, d.identity["use_qa"])>>,
                      {<<"workspace", output_key>>, <<"identity", "use_qa">>},
                      {<<"workspace", output_key>>, <<"workspace", "all_output.txt">>},
                      NoIo)

perform_ai_task(d, messages, output_key, reply) ==
  IF ~Has(d.workspace, output_key) THEN Raise(d, <<>>, {}, "workspace", output_key)
  ELSE LET m1 == messages \o <<fassistant(d.workspace[output_key])>> IN
       IF ~Has(d.identity, "use_qa") THEN Raise(d, <<>>, {}, "identity", "use_qa")
       ELSE LET m2 == AiNext(m1, d.identity["use_qa"], reply)
                d1 == Store(d, "workspace", output_key, Last(m2).content)
                d2 == to_files(d1.workspace[output_key], d1)
            IN Return(d2, m2, <<Request(m1, d.identity["use_qa"])>>,
                      {<<"workspace", output_key>>, <<"identity", "use_qa">>},
                      {<<"workspace", output_key>>, <<"workspace", "all_output.txt">>},
                      NoIo)

\* the entries a step read before it delegated to perform_ai_task
WithReads(res, reads) ==
  IF res.err THEN res ELSE [res EXCEPT !.reads = @ \cup reads]

gen_spec(d, reply) ==
  IF ~Has(d.input, "main_prompt") THEN Raise(d, <<>>, {}, "input", "main_prompt")
  ELSE WithReads(
         perform_ai_task(d, <<fsystem(Instructions \o d.input["main_prompt"])>>,
                         "specification", reply),
         {<<"input", "main_prompt">>})

\* respec that stores the reply to its first request
respec_first_reply(d, reply1, reply2) ==
  IF ~Has(d.logs, "gen_spec") THEN Raise(d, <<>>, {}, "logs", "gen_spec")
  ELSE LET loaded == loads(d.logs["gen_spec"]) IN
       IF ~Has(d.identity, "respec") THEN Raise(d, <<>>, {}, "identity", "respec")
       ELSE LET m1 == loaded \o <<fsystem(d.identity["respec"])>>
                m2 == AiNextBare(m1, reply1)
                m3 == AiNext(m2, ReiteratePrompt, reply2)
            IN Return(Store(d, "memory", "specification", Last(m2).content), m3,
                      <<m1, Request(m2, ReiteratePrompt)>>,
                      {<<"logs", "gen_spec">>, <<"identity", "respec">>},
                      {<<"memory", "specification">>},
                      [NoIo EXCEPT !.loaded = loaded])

respec(d, reply1, reply2) ==
  IF ~Has(d.logs, "gen_spec") THEN Raise(d, <<>>, {}, "logs", "gen_spec")
  ELSE LET loaded == loads(d.logs["gen_spec"]) IN
       IF ~Has(d.identity, "respec") THEN Raise(d, <<>>, {}, "identity", "respec")
       ELSE LET m1 == loaded \o <<fsystem(d.identity["respec"])>>
                m2 == AiNextBare(m1, reply1)
                m3 == AiNext(m2, ReiteratePrompt, reply2)
            IN Return(Store(d, "memory", "specification", Last(m3).content), m3,
                      <<m1, Request(m2, ReiteratePrompt)>>,
                      {<<"logs", "gen_spec">>, <<"identity", "respec">>},
                      {<<"memory", "specification">>},
                      [NoIo EXCEPT !.loaded = loaded])

gen_unit_tests(d, reply) ==
  IF ~Has(d.input, "main_prompt") THEN Raise(d, <<>>, {}, "input", "main_prompt")
  ELSE IF ~Has(d.memory, "specification")
  THEN Raise(d, <<>>, {}, "memory", "specification")
  ELSE WithReads(
         perform_ai_task(d, <<fsystem(Instructions \o d.input["main_prompt"]),
                              fsystem(SpecificationHead \o d.memory["specification"])>>,
                         "unit_tests", reply),
         {<<"input", "main_prompt">>, <<"memory", "specification">>})

\* gen_clarified_code that drops the first two messages of the log
gen_clarified_code_drop_two(d, reply) ==
  IF ~Has(d.logs, "clarify") THEN Raise(d, <<>>, {}, "logs", "clarify")
  ELSE LET loaded == loads(d.logs["clarify"]) IN
       IF SysPromptMissing(d) # "none"
       THEN Raise(d, <<>>, {}, "identity", SysPromptMissing(d))
       ELSE LET m1 == <<fsystem(setup_sys_prompt(d))>>
                        \o SubSeq(loaded, 3, Len(loaded))
            IN IF ~Has(d.identity, "use_qa")
               THEN Raise(d, <<>>, {}, "identity", "use_qa")
               ELSE LET m2 == AiNext(m1, d.identity["use_qa"], reply) IN
                    Return(to_files(Last(m2).content, d), m2,
                           <<Request(m1, d.identity["use_qa"])>>,
                           SysPromptReads
                             \cup {<<"logs", "clarify">>, <<"identity", "use_qa">>},
                           {<<"workspace", "all_output.txt">>},
                           [NoIo EXCEPT !.loaded = loaded])

gen_clarified_code(d, reply) ==
  IF ~Has(d.logs, "clarify") THEN Raise(d, <<>>, {}, "logs", "clarify")
  ELSE LET loaded == loads(d.logs["clarify"]) IN
       IF SysPromptMissing(d) # "none"
       THEN Raise(d, <<>>, {}, "identity", SysPromptMissing(d))
       ELSE LET m1 == <<fsystem(setup_sys_prompt(d))>>
                        \o SubSeq(loaded, 2, Len(loaded))
            IN IF ~Has(d.identity, "use_qa")
               THEN Raise(d, <<>>, {}, "identity", "use_qa")
               ELSE LET m2 == AiNext(m1, d.identity["use_qa"], reply) IN
                    Return(to_files(Last(m2).content, d), m2,
                           <<Request(m1, d.identity["use_qa"])>>,
                           SysPromptReads
                             \cup {<<"logs", "clarify">>, <<"identity", "use_qa">>},
                           {<<"workspace", "all_output.txt">>},
                           [NoIo EXCEPT !.loaded = loaded])

gen_code(d, reply) ==
  IF ~Has(d.input, "main_prompt") THEN Raise(d, <<>>, {}, "input", "main_prompt")
  ELSE IF ~Has(d.memory, "specification")
  THEN Raise(d, <<>>, {}, "memory", "specification")
  ELSE IF ~Has(d.memory, "unit_tests")
  THEN Raise(d, <<>>, {}, "memory", "unit_tests")
  ELSE WithReads(
         perform_ai_task(d, <<fsystem(Instructions \o d.input["main_prompt"]),
                              fsystem(SpecificationHead \o d.memory["specification"]),
                              fsystem(UnitTestsHead \o d.memory["unit_tests"])>>,
                         "code", reply),
         {<<"input", "main_prompt">>, <<"memory", "specification">>,
          <<"memory", "unit_tests">>})

\* execute_entrypoint that also takes "yes" for a confirmation
execute_entrypoint_yes(d, input, rc) ==
  IF ~Has(d.workspace, "run.sh") THEN Raise(d, <<>>, {}, "workspace", "run.sh")
  ELSE IF input # <<>> /\ input # <<"y", "e", "s">>
  THEN Return(d, <<>>, <<>>, {<<"workspace", "run.sh">>}, {},
              [NoIo EXCEPT !.inputs = <<input>>])
  ELSE Return(d, <<>>, <<>>, {<<"workspace", "run.sh">>}, {},
              [NoIo EXCEPT !.inputs = <<input>>, !.ran = TRUE, !.rc = rc])

\* input is what the operator types at the confirmation prompt; rc is the
\* exit code of the subprocess, which subprocess.run returns and nobody reads
execute_entrypoint(d, input, rc) ==
  IF ~Has(d.workspace, "run.sh") THEN Raise(d, <<>>, {}, "workspace", "run.sh")
  ELSE IF input # <<>>
  THEN Return(d, <<>>, <<>>, {<<"workspace", "run.sh">>}, {},
              [NoIo EXCEPT !.inputs = <<input>>])
  ELSE Return(d, <<>>, <<>>, {<<"workspace", "run.sh">>}, {},
              [NoIo EXCEPT !.inputs = <<input>>, !.ran = TRUE, !.rc = rc])

gen_entrypoint(d, reply) ==
  IF ~Has(d.workspace, "all_output.txt")
  THEN Raise(d, <<>>, {}, "workspace", "all_output.txt")
  ELSE LET user == CodebaseHead \o d.workspace["all_output.txt"]
           messages == AiStart(EntrypointSystem, user, reply)
       IN Return(Store(d, "workspace", "run.sh", RunScript(Last(messages).content)),
                 messages, <<Request(<<fsystem(EntrypointSystem)>>, user)>>,
                 {<<"workspace", "all_output.txt">>}, {<<"workspace", "run.sh">>},
                 NoIo)

\* use_feedback that looks the feedback up after a first exchange
use_feedback_late_lookup(d, reply) ==
  IF SysPromptMissing(d) # "none"
  THEN Raise(d, <<>>, {}, "identity", SysPromptMissing(d))
  ELSE IF ~Has(d.input, "main_prompt") THEN Raise(d, <<>>, {}, "input", "main_prompt")
  ELSE IF ~Has(d.workspace, "all_output.txt")
  THEN Raise(d, <<>>, {}, "workspace", "all_output.txt")
  ELSE IF ~Has(d.identity, "use_feedback")
  THEN Raise(d, <<>>, {}, "identity", "use_feedback")
  ELSE LET m1 == <<fsystem(setup_sys_prompt(d)),
                   fuser(Instructions \o d.input["main_prompt"]),
                   fassistant(d.workspace["all_output.txt"]),
                   fsystem(d.identity["use_feedback"])>>
           m2 == AiNextBare(m1, reply)
       IN IF ~Has(d.memory, "feedback")
          THEN Raise(d, <<m1>>, {}, "memory", "feedback")
          ELSE LET m3 == AiNext(m2, d.memory["feedback"], reply) IN
               Return(to_files(Last(m3).content, d), m3,
                      <<m1, Request(m2, d.memory["feedback"])>>,
                      SysPromptReads
                        \cup {<<"input", "main_prompt">>,
                              <<"workspace", "all_output.txt">>,
                              <<"identity", "use_feedback">>, <<"memory", "feedback">>},
                      {<<"workspace", "all_output.txt">>}, NoIo)

use_feedback(d, reply) ==
  IF SysPromptMissing(d) # "none"
  THEN Raise(d, <<>>, {}, "identity", SysPromptMissing(d))
  ELSE IF ~Has(d.input, "main_prompt") THEN Raise(d, <<>>, {}, "input", "main_prompt")
  ELSE IF ~Has(d.workspace, "all_output.txt")
  THEN Raise(d, <<>>, {}, "workspace", "all_output.txt")
  ELSE IF ~Has(d.identity, "use_feedback")
  THEN Raise(d, <<>>, {}, "identity", "use_feedback")
  ELSE LET m1 == <<fsystem(setup_sys_prompt(d)),
                   fuser(Instructions \o d.input["main_prompt"]),
                   fassistant(d.workspace["all_output.txt"]),
                   fsystem(d.identity["use_feedback"])>>
       IN IF ~Has(d.memory, "feedback") THEN Raise(d, <<>>, {}, "memory", "feedback")
          ELSE LET m2 == AiNext(m1, d.memory["feedback"], reply) IN
               Return(to_files(Last(m2).content, d), m2,
                      <<Request(m1, d.memory["feedback"])>>,
                      SysPromptReads
                        \cup {<<"input", "main_prompt">>,
                              <<"workspace", "all_output.txt">>,
                              <<"identity", "use_feedback">>, <<"memory", "feedback">>},
                      {<<"workspace", "all_output.txt">>}, NoIo)

fix_code(d, reply) ==
  IF ~Has(d.logs, "gen_code") THEN Raise(d, <<>>, {}, "logs", "gen_code")
  ELSE LET loaded == loads(d.logs["gen_code"])
           code_ouput == Last(loaded).content
       IN IF SysPromptMissing(d) # "none"
          THEN Raise(d, <<>>, {}, "identity", SysPromptMissing(d))
          ELSE IF ~Has(d.input, "main_prompt")
          THEN Raise(d, <<>>, {}, "input", "main_prompt")
          ELSE IF ~Has(d.identity, "fix_code")
          THEN Raise(d, <<>>, {}, "identity", "fix_code")
          ELSE LET m1 == <<fsystem(setup_sys_prompt(d)),
                           fuser(Instructions \o d.input["main_prompt"]),
                           fuser(code_ouput),
                           fsystem(d.identity["fix_code"])>>
                   m2 == AiNext(m1, FixPrompt, reply)
               IN Return(to_files(Last(m2).content, d), m2,
                         <<Request(m1, FixPrompt)>>,
                         SysPromptReads
                           \cup {<<"logs", "gen_code">>, <<"input", "main_prompt">>,
                                 <<"identity", "fix_code">>},
                         {<<"workspace", "all_output.txt">>},
                         [NoIo EXCEPT !.loaded = loaded])

(***************************************************************************)
(* clarify, one suspension point at a time: the frame holds its local      *)
(* variables, the requests it sent and the operator inputs it read.        *)
(* pc: "none" (not running), "send" (at line 31), "input" (at line 37),    *)
(* "break" (left the loop, returns).                                       *)
(***************************************************************************)
NoFrame ==
  [pc |-> "none", messages |-> <<>>, user |-> <<>>, sent |-> <<>>, inputs |-> <<>>]

\* lines 28-29, given that both lookups succeed
clarify_enter(d) ==
  [pc |-> "send", messages |-> <<fsystem(d.identity["qa"])>>,
   user |-> d.input["main_prompt"], sent |-> <<>>, inputs |-> <<>>]

\* SaysNo without the strip()
SaysNoUnstripped(content) == startswith(lower(content), <<"n", "o">>)

\* line 33: the test on the backend's reply
SaysNo(content) == startswith(lower(strip(content)), <<"n", "o">>)

\* lines 31-34: one exchange with the backend and the test of its reply
clarify_next(f, reply) ==
  LET messages == AiNext(f.messages, f.user, reply) IN
  [f EXCEPT !.messages = messages,
            !.sent = Append(@, Request(f.messages, f.user)),
            !.pc = IF SaysNo(Last(messages).content) THEN "break" ELSE "input"]

\* clarify_input that ends the loop on the empty input only
clarify_input_empty_only(f, user) ==
  IF user = <<>>
  THEN [f EXCEPT !.inputs = Append(@, user), !.user = user, !.pc = "break"]
  ELSE [f EXCEPT !.inputs = Append(@, user), !.user = user \o ClarifySuffix,
                 !.pc = "send"]

\* lines 37-49: the operator's answer
clarify_input(f, user) ==
  IF user = <<>> \/ user = <<"q">>
  THEN [f EXCEPT !.inputs = Append(@, user), !.user = user, !.pc = "break"]
  ELSE [f EXCEPT !.inputs = Append(@, user), !.user = user \o ClarifySuffix,
                 !.pc = "send"]

\* lines 51-52
clarify_return(d, f) ==
  Return(d, f.messages, f.sent,
         {<<"identity", "qa">>, <<"input", "main_prompt">>}, {},
         [NoIo EXCEPT !.inputs = f.inputs])

\* Different configs of what steps to run
STEPS ==
  ("default" :> <<"simple_gen", "gen_entrypoint", "execute_entrypoint">>)
  @@ ("benchmark" :> <<"simple_gen", "gen_entrypoint">>)
  @@ ("simple" :> <<"simple_gen", "gen_entrypoint", "execute_entrypoint">>)
  @@ ("tdd" :> <<"gen_spec", "gen_unit_tests", "gen_code", "gen_entrypoint",
                 "execute_entrypoint">>)
  @@ ("tdd+" :> <<"gen_spec", "gen_unit_tests", "gen_code", "fix_code",
                  "gen_entrypoint", "execute_entrypoint">>)
  @@ ("clarify" :> <<"clarify", "gen_clarified_code", "gen_entrypoint",
                     "execute_entrypoint">>)
  @@ ("respec" :> <<"gen_spec", "respec", "gen_unit_tests", "gen_code",
                    "gen_entrypoint", "execute_entrypoint">>)
  @@ ("execute_only" :> <<"execute_entrypoint">>)
  @@ ("use_feedback" :> <<"use_feedback">>)

(***************************************************************************)
(* The inputs of the model: the stores a run may start from, the replies   *)
(* of the backend, what the operator types, the exit code of run.sh.       *)
(***************************************************************************)
IdentityKeys ==
  {"generate", "philosophy", "qa", "use_qa", "respec", "use_feedback", "fix_code"}

InputKeys == {"main_prompt"}

MemoryKeys == {"specification", "unit_tests", "feedback"}

WorkspaceKeys == {"specification", "unit_tests", "code", "all_output.txt", "run.sh"}

\* a namespace holding the given keys; a template or an artifact left by an
\* earlier run is one symbol naming its namespace and key
Filled(ns, keys) == [k \in keys |-> <<ns, "/", k>>]

\* all keys, none, or all but one
Populations(keys) == {keys, {}} \cup {keys \ {k} : k \in keys}

StoreOf(ik, pk, mk, wk) ==
  [identity |-> Filled("identity", ik), input |-> Filled("input", pk),
   memory |-> Filled("memory", mk), workspace |-> Filled("workspace", wk),
   logs |-> Filled("logs", {})]

InitStores ==
  {StoreOf(IdentityKeys, InputKeys, mk, wk) :
     mk \in Populations(MemoryKeys), wk \in Populations(WorkspaceKeys)}
  \cup {StoreOf(ik, pk, ks[1], ks[2]) :
          ik \in Populations(IdentityKeys), pk \in Populations(InputKeys),
          ks \in {<<{}, {}>>, <<MemoryKeys, WorkspaceKeys>>}}

Digits == <<"1", "2", "3", "4", "5", "6", "7", "8", "9">>

\* the replies of the backend to a generation request
GenReplies == {<<"r", Digits[i]>> : i \in 1..NReplies}

\* the replies of the backend to clarify: two that say no, one that does not
ClarifyReplies ==
  {<<"N", "o">>, <<" ", "\n", "n", "O", " ", "m", "o", "r", "e", ".", "\n">>,
   <<"O", "n", "e", " ", "n", "o", "t", "e", "?">>}

\* what the operator types at the prompt of clarify
ClarifyInputs == {<<>>, <<"q">>, <<"q", " ">>}

Fence == <<BQ, BQ, BQ>>

PipInstall == <<"p", "i", "p", " ", "i", "n", "s", "t", "a", "l", "l", " ", "x">>

PythonMain == <<"p", "y", "t", "h", "o", "n", " ", "m", "a", "i", "n", ".", "p", "y">>

\* a fenced block: the opening fence line (with a language tag or none), the
\* content line, the closing fence line
Block(tag, content) == Fence \o tag \o <<"\n">> \o content \o <<"\n">> \o Fence

\* replies holding the two blocks pip install x and python main.py
TwoBlockReplies ==
  {Block(<<>>, PipInstall) \o <<"\n">> \o Block(<<>>, PythonMain),
   <<"R", "u", "n", ":", "\n">> \o Block(<<"s", "h">>, PipInstall)
     \o <<"\n", "t", "h", "e", "n", "\n">> \o Block(<<"b", "a", "s", "h">>, PythonMain)
     \o <<"\n">>}

\* the replies of the backend to gen_entrypoint: with two blocks, with none,
\* with a fence that never closes
ShellReplies ==
  TwoBlockReplies
  \cup {<<"l", "s">>, Fence \o <<"\n", "l", "s", "\n">>}

\* what the operator types at the prompt of execute_entrypoint
ConfirmInputs == {<<>>, <<"y", "e", "s">>, <<" ">>}

\* the exit codes of the subprocess
ExitCodes == {0, 1}

(***************************************************************************)
(* The driver: it runs the steps of the chosen workflow in order, logs the *)
(* conversation each step returns under the step's name, and stops at the  *)
(* first step that raises.                                                 *)
(***************************************************************************)
\* the steps the driver runs: those of a registered workflow or, for a step
\* called on its own, the step
Plan(w) == IF w \in DOMAIN STEPS THEN STEPS[w] ELSE <<w>>

CallRecord(name, res) ==
  [name |-> name, pre |-> dbs, post |-> res.dbs, err |-> res.err,
   missing |-> res.missing, ret |-> res.ret, sent |-> res.sent,
   reads |-> res.reads, writes |-> res.writes, io |-> res.io]

\* the step returned or raised: the rest of the driver's loop body
Finish(name, res) ==
  /\ hist' = Append(hist, CallRecord(name, res))
  /\ cl' = NoFrame
  /\ wf' = wf
  /\ IF res.err
     THEN /\ status' = "aborted"
          /\ dbs' = res.dbs
          /\ idx' = idx
     ELSE /\ dbs' = Store(res.dbs, "logs", name, dumps(res.ret))
          /\ idx' = idx + 1
          /\ status' = IF idx = Len(Plan(wf)) THEN "done" ELSE "running"

\* the driver is about to call the step named name
Current(name) ==
  /\ status = "running"
  /\ cl.pc = "none"
  /\ idx <= Len(Plan(wf))
  /\ Plan(wf)[idx] = name

Init ==
  /\ wf \in DOMAIN STEPS
  /\ idx = 1
  /\ status = "running"
  /\ dbs \in InitStores
  /\ hist = <<>>
  /\ cl = NoFrame

RunSimpleGen ==
  /\ Current("simple_gen")
  /\ \E reply \in GenReplies : Finish("simple_gen", simple_gen(dbs, reply))

ClarifyEnter ==
  /\ Current("clarify")
  /\ IF ~Has(dbs.identity, "qa")
     THEN Finish("clarify", Raise(dbs, <<>>, {}, "identity", "qa"))
     ELSE IF ~Has(dbs.input, "main_prompt")
     THEN Finish("clarify", Raise(dbs, <<>>, {}, "input", "main_prompt"))
     ELSE /\ cl' = clarify_enter(dbs)
          /\ UNCHANGED <<wf, idx, status, dbs, hist>>

\* the frame after a step of clarify: it goes on, or clarify returns
ClarifyStep(f) ==
  IF f.pc = "break"
  THEN Finish("clarify", clarify_return(dbs, f))
  ELSE /\ cl' = f
       /\ UNCHANGED <<wf, idx, status, dbs, hist>>

ClarifySend ==
  /\ status = "running"
  /\ cl.pc = "send"
  /\ Len(cl.sent) < MaxRounds
  /\ \E reply \in ClarifyReplies : ClarifyStep(clarify_next(cl, reply))

ClarifyInput ==
  /\ status = "running"
  /\ cl.pc = "input"
  /\ \E user \in ClarifyInputs : ClarifyStep(clarify_input(cl, user))

RunGenSpec ==
  /\ Current("gen_spec")
  /\ \E reply \in GenReplies : Finish("gen_spec", gen_spec(dbs, reply))

RunRespec ==
  /\ Current("respec")
  /\ \E reply1 \in GenReplies, reply2 \in GenReplies :
       Finish("respec", respec(dbs, reply1, reply2))

RunGenUnitTests ==
  /\ Current("gen_unit_tests")
  /\ \E reply \in GenReplies : Finish("gen_unit_tests", gen_unit_tests(dbs, reply))

RunGenClarifiedCode ==
  /\ Current("gen_clarified_code")
  /\ \E reply \in GenReplies :
       Finish("gen_clarified_code", gen_clarified_code(dbs, reply))

RunGenCode ==
  /\ Current("gen_code")
  /\ \E reply \in GenReplies : Finish("gen_code", gen_code(dbs, reply))

RunExecuteEntrypoint ==
  /\ Current("execute_entrypoint")
  /\ \E input \in ConfirmInputs, rc \in ExitCodes :
       Finish("execute_entrypoint", execute_entrypoint(dbs, input, rc))

RunGenEntrypoint ==
  /\ Current("gen_entrypoint")
  /\ \E reply \in ShellReplies : Finish("gen_entrypoint", gen_entrypoint(dbs, reply))

RunUseFeedback ==
  /\ Current("use_feedback")
  /\ \E reply \in GenReplies : Finish("use_feedback", use_feedback(dbs, reply))

RunFixCode ==
  /\ Current("fix_code")
  /\ \E reply \in GenReplies : Finish("fix_code", fix_code(dbs, reply))

Next ==
  \/ RunSimpleGen
  \/ ClarifyEnter
  \/ ClarifySend
  \/ ClarifyInput
  \/ RunGenSpec
  \/ RunRespec
  \/ RunGenUnitTests
  \/ RunGenClarifiedCode
  \/ RunGenCode
  \/ RunExecuteEntrypoint
  \/ RunGenEntrypoint
  \/ RunUseFeedback
  \/ RunFixCode

Spec == Init /\ [][Next]_vars

(***************************************************************************)
(* Every step called on its own, on a store in which any one key may be    *)
(* absent; the runs of Spec are among the runs of SpecSteps.               *)
(***************************************************************************)
StepNames ==
  {"simple_gen", "clarify", "gen_spec", "respec", "gen_unit_tests",
   "gen_clarified_code", "gen_code", "execute_entrypoint", "gen_entrypoint",
   "use_feedback", "fix_code"}

LogKeys == {"gen_spec", "clarify", "gen_code"}

\* a conversation logged by an earlier run
OldLog(k) == dumps(<<fsystem(<<"logs", "/", k>>), fuser(<<"u">>), fassistant(<<"o">>)>>)

StepStores ==
  {[identity |-> Filled("identity", ik), input |-> Filled("input", pk),
    memory |-> Filled("memory", mk), workspace |-> Filled("workspace", wk),
    logs |-> [k \in lk |-> OldLog(k)]] :
     ik \in Populations(IdentityKeys), pk \in Populations(InputKeys),
     mk \in {MemoryKeys, {}, MemoryKeys \ {"specification"}},
     wk \in {WorkspaceKeys, {}, WorkspaceKeys \ {"code"}},
     lk \in {LogKeys, {}}}

InitSteps ==
  /\ \/ wf \in DOMAIN STEPS /\ dbs \in InitStores
     \/ wf \in StepNames /\ dbs \in StepStores
  /\ idx = 1
  /\ status = "running"
  /\ hist = <<>>
  /\ cl = NoFrame

SpecSteps == InitSteps /\ [][Next]_vars

(***************************************************************************)
(* perform_ai_task called again and again by a caller of its own.          *)
(***************************************************************************)
TaskKeys == {"specification", "code"}

TaskSeeds == {<<>>, <<fsystem(Instructions \o <<"a", "p", "p">>)>>}

TaskStores ==
  {StoreOf(ik, InputKeys, {}, wk) :
     ik \in {IdentityKeys, IdentityKeys \ {"use_qa"}}, wk \in SUBSET TaskKeys}

InitTask ==
  /\ wf = "perform_ai_task"
  /\ idx = 1
  /\ status = "running"
  /\ dbs \in TaskStores
  /\ hist = <<>>
  /\ cl = NoFrame

TaskCall ==
  /\ Len(hist) < MaxCalls
  /\ \E key \in TaskKeys, messages \in TaskSeeds, reply \in GenReplies :
       LET res == perform_ai_task(dbs, messages, key, reply) IN
       /\ hist' = Append(hist, [CallRecord("perform_ai_task", res) EXCEPT
                                  !.io = [key |-> key, messages |-> messages]])
       /\ dbs' = res.dbs
  /\ UNCHANGED <<wf, idx, status, cl>>

NextTask == TaskCall

SpecTask == InitTask /\ [][NextTask]_vars

(***************************************************************************)
(* The claims.                                                             *)
(***************************************************************************)
IsPrefix(p, q) == Len(p) <= Len(q) /\ SubSeq(q, 1, Len(p)) = p

\* the calls of the step named name that returned
Returned(name) == {i \in DOMAIN hist : hist[i].name = name /\ ~hist[i].err}

\* the store holds every template and the main prompt, and nothing else
FreshStore(d) ==
  /\ DOMAIN d.identity = IdentityKeys
  /\ DOMAIN d.input = InputKeys
  /\ DOMAIN d.memory = {}
  /\ DOMAIN d.workspace = {}
  /\ DOMAIN d.logs = {}

\* C1: in a run of a registered workflow that starts from a store in which
\* only input and identity are populated, no step ends in a lookup failure:
\* every entry a step reads was written by an earlier step of the workflow.
C1_NoLookupFailure ==
  (wf \in DOMAIN STEPS /\ hist # <<>> /\ FreshStore(hist[1].pre))
    => \A i \in DOMAIN hist : ~hist[i].err

\* the text, after leading whitespace, begins with "no" in any case
BeginsWithNo(t) ==
  \E k \in 1..(Len(t) - 1) :
    /\ \A j \in 1..(k - 1) : t[j] \in Whitespace
    /\ t[k] \in {"n", "N"}
    /\ t[k + 1] \in {"o", "O"}

\* C2: when the first reply of the backend to clarify begins with "no"
\* (trimmed, any case), clarify ends after that one exchange: the operator
\* is not prompted, nothing more is sent, and the conversation returned is
\* the seed system message, the main prompt and that reply.
C2_NoEndsClarify ==
  /\ \A i \in Returned("clarify") :
       LET r == hist[i] IN
       BeginsWithNo(r.ret[3].content)
         => /\ Len(r.sent) = 1
            /\ r.io.inputs = <<>>
            /\ Len(r.ret) = 3
            /\ r.ret[1] = fsystem(r.pre.identity["qa"])
            /\ r.ret[2] = fuser(r.pre.input["main_prompt"])
            /\ r.ret[3].role = "assistant"
  /\ (cl.pc \in {"send", "input"} /\ Len(cl.messages) >= 3)
       => ~BeginsWithNo(cl.messages[3].content)

\* a run of clarify ended by a first reply with leading whitespace and
\* mixed case
C2_Witness ==
  \E i \in Returned("clarify") :
    /\ hist[i].ret[3].content = <<" ", "\n", "n", "O", " ", "m", "o", "r", "e", ".", "\n">>
    /\ Len(hist[i].sent) = 1

\* the operator inputs that end clarify
Terminating == {<<>>, <<"q">>}

\* C3: an operator input that is empty or exactly "q" ends clarify at once,
\* with no further request; a returned run made 1 + (number of other
\* inputs) requests, and the ending input is in no message of the
\* conversation: the user messages are the main prompt and, in order, the
\* other inputs with the fixed suffix.
C3_OperatorEndsClarify ==
  /\ \A i \in Returned("clarify") :
       LET r == hist[i]
           inputs == r.io.inputs
       IN /\ \A j \in DOMAIN inputs : inputs[j] \in Terminating => j = Len(inputs)
          /\ Len(r.sent)
               = 1 + Cardinality({j \in DOMAIN inputs : inputs[j] \notin Terminating})
          /\ Len(r.ret) = 1 + 2 * Len(r.sent)
          /\ \A j \in 1..Len(r.sent) :
               /\ r.ret[2 * j] =
                    fuser(IF j = 1 THEN r.pre.input["main_prompt"]
                          ELSE inputs[j - 1] \o ClarifySuffix)
               /\ r.ret[2 * j + 1].role = "assistant"
               /\ r.sent[j] = SubSeq(r.ret, 1, 2 * j)
  /\ \A j \in DOMAIN cl.inputs : cl.inputs[j] \notin Terminating
  /\ Len(cl.sent) <= 1 + Len(cl.inputs)

\* a run of clarify that went on after the input "q " and ended on "q"
C3_Witness ==
  \E i \in Returned("clarify") :
    /\ hist[i].io.inputs = <<<<"q", " ">>, <<"q">>>>
    /\ Len(hist[i].sent) = 2

\* the calls of gen_entrypoint whose reply holds the two blocks
TwoBlockCalls ==
  {i \in Returned("gen_entrypoint") : Last(hist[i].ret).content \in TwoBlockReplies}

\* C4 as claimed: for a reply with the two fenced blocks pip install x and
\* python main.py, run.sh is exactly "pip install x\npython main.py".
C4_RunShAsClaimed ==
  \A i \in TwoBlockCalls :
    hist[i].post.workspace["run.sh"] = PipInstall \o <<"\n">> \o PythonMain

\* C4 as amended: for a reply with the two fenced blocks pip install x and
\* python main.py, run.sh is exactly "pip install x\n\npython main.py\n":
\* each content keeps the newline that ends its line, the contents are in
\* order of appearance and joined by one newline, without the fences.
C4_RunShKeepsLineEnds ==
  \A i \in TwoBlockCalls :
    hist[i].post.workspace["run.sh"]
      = PipInstall \o <<"\n">> \o <<"\n">> \o PythonMain \o <<"\n">>

\* gen_entrypoint returned for the reply with language tags and text around
\* the blocks
C4_Witness ==
  \E i \in TwoBlockCalls :
    /\ Head(Last(hist[i].ret).content) = "R"
    /\ Has(hist[i].post.workspace, "run.sh")

\* C5: of two calls of perform_ai_task in succession with the same output
\* key, the second presents as assistant context exactly the reply the
\* first stored, makes one request, and leaves the entry holding the second
\* reply alone; the entry it reads the context from is the one it writes.
C5_SecondCallReadsFirst ==
  \A i \in DOMAIN hist :
    (/\ i > 1
     /\ ~hist[i - 1].err
     /\ ~hist[i].err
     /\ hist[i - 1].io.key = hist[i].io.key)
      => LET r1 == hist[i - 1]
             r2 == hist[i]
             key == r2.io.key
             reply1 == Last(r1.ret).content
             reply2 == Last(r2.ret).content
             context == r2.sent[1][Len(r2.io.messages) + 1]
         IN /\ Len(r2.sent) = 1
            /\ IsPrefix(r2.io.messages, r2.sent[1])
            /\ Len(r2.sent[1]) = Len(r2.io.messages) + 2
            /\ context = fassistant(reply1)
            /\ r2.ret = r2.sent[1] \o <<fassistant(reply2)>>
            /\ \E ns \in Namespaces :
                 /\ <<ns, key>> \in r2.reads
                 /\ <<ns, key>> \in r2.writes
                 /\ r1.post[ns][key] = reply1
                 /\ r2.post[ns][key] = reply2

\* two calls in succession with the same key and different replies
C5_Witness ==
  \E i \in DOMAIN hist :
    /\ i > 1
    /\ ~hist[i - 1].err
    /\ ~hist[i].err
    /\ hist[i - 1].io.key = hist[i].io.key
    /\ Last(hist[i - 1].ret).content # Last(hist[i].ret).content

\* C6: when respec runs after gen_spec, the entry into which gen_spec wrote
\* its specification holds the final reply of respec afterwards.
C6_RespecReplacesGenSpec ==
  \A i \in Returned("respec") :
    (i > 1 /\ hist[i - 1].name = "gen_spec")
      => \A e \in hist[i - 1].writes :
           e[2] = "specification"
             => hist[i].post[e[1]][e[2]] = Last(hist[i].ret).content

\* C7: a run of respec that returns makes two requests, the second the
\* instruction to reiterate, sets memory["specification"] to the last reply
\* and leaves every other entry of the store as it was.
C7_RespecFrame ==
  \A i \in Returned("respec") :
    LET r == hist[i] IN
    /\ Len(r.sent) = 2
    /\ Last(r.sent[2]) = fuser(ReiteratePrompt)
    /\ r.ret = r.sent[2] \o <<Last(r.ret)>>
    /\ Last(r.ret).role = "assistant"
    /\ r.writes = {<<"memory", "specification">>}
    /\ \A ns \in Namespaces \ {"memory"} : r.post[ns] = r.pre[ns]
    /\ DOMAIN r.post.memory = (DOMAIN r.pre.memory) \cup {"specification"}
    /\ \A k \in (DOMAIN r.pre.memory) \ {"specification"} :
         r.post.memory[k] = r.pre.memory[k]
    /\ r.post.memory["specification"] = Last(r.ret).content

\* respec returned in a store that held other entries of memory, the two
\* replies being different
C7_Witness ==
  \E i \in Returned("respec") :
    /\ Has(hist[i].pre.memory, "feedback")
    /\ hist[i].ret[Len(hist[i].ret) - 2].content # Last(hist[i].ret).content

\* the calls of the steps that load a logged conversation
Loading == Returned("respec") \cup Returned("gen_clarified_code")

\* the conversation the call i loaded
LoadedBy(i) ==
  loads(hist[i].pre.logs[IF hist[i].name = "respec" THEN "gen_spec" ELSE "clarify"])

\* C8 as claimed: the conversation a step loads from a log is an unmodified
\* prefix of every conversation it sends and of the one it returns.
C8_LoadedIsPrefix ==
  \A i \in Loading :
    /\ IsPrefix(LoadedBy(i), hist[i].ret)
    /\ \A j \in DOMAIN hist[i].sent : IsPrefix(LoadedBy(i), hist[i].sent[j])

\* C8 as amended: for respec the loaded conversation is an unmodified prefix
\* of what it sends and returns; gen_clarified_code replaces the first
\* message of the loaded conversation by the assembled system prompt and
\* keeps every other message at its place, adding only at the end.
C8_LoadedKeptButFirst ==
  /\ \A i \in Returned("respec") :
       /\ IsPrefix(LoadedBy(i), hist[i].ret)
       /\ \A j \in DOMAIN hist[i].sent : IsPrefix(LoadedBy(i), hist[i].sent[j])
  /\ \A i \in Returned("gen_clarified_code") :
       LET r == hist[i]
           loaded == LoadedBy(i)
       IN /\ Len(r.sent) = 1
          /\ Len(r.sent[1]) = Len(loaded) + 1
          /\ IsPrefix(r.sent[1], r.ret)
          /\ r.ret[1] = fsystem(r.pre.identity["generate"] \o UsefulToKnow
                                  \o r.pre.identity["philosophy"])
          /\ \A k \in 2..Len(loaded) : r.ret[k] = loaded[k]

\* gen_clarified_code returned after a run of clarify of two exchanges
C8_Witness ==
  \E i \in Returned("gen_clarified_code") :
    /\ Len(LoadedBy(i)) = 5
    /\ hist[i].ret[1] # LoadedBy(i)[1]

\* C9: execute_entrypoint runs the subprocess if and only if the operator's
\* confirmation is the empty input; either way, and whatever the exit code,
\* it returns the empty conversation, sends nothing and writes nothing.
C9_ExecuteOnlyOnEmptyInput ==
  \A i \in DOMAIN hist :
    hist[i].name = "execute_entrypoint"
      => LET r == hist[i] IN
         /\ r.err <=> ~Has(r.pre.workspace, "run.sh")
         /\ ~r.err
              => /\ Len(r.io.inputs) = 1
                 /\ r.io.ran <=> r.io.inputs[1] = <<>>
                 /\ r.ret = <<>>
                 /\ r.sent = <<>>
                 /\ r.writes = {}
                 /\ r.post = r.pre

\* the subprocess ran and exited with a non-zero code, and the step returned
C9_Witness ==
  \E i \in Returned("execute_entrypoint") :
    /\ hist[i].io.ran
    /\ hist[i].io.rc # 0
    /\ status = "done"

\* the entries each step looks up
StepReads(name) ==
  CASE name = "simple_gen" ->
         {<<"identity", "generate">>, <<"identity", "philosophy">>,
          <<"input", "main_prompt">>}
    [] name = "clarify" -> {<<"identity", "qa">>, <<"input", "main_prompt">>}
    [] name = "gen_spec" ->
         {<<"input", "main_prompt">>, <<"workspace", "specification">>,
          <<"identity", "use_qa">>}
    [] name = "respec" -> {<<"logs", "gen_spec">>, <<"identity", "respec">>}
    [] name = "gen_unit_tests" ->
         {<<"input", "main_prompt">>, <<"memory", "specification">>,
          <<"workspace", "unit_tests">>, <<"identity", "use_qa">>}
    [] name = "gen_clarified_code" ->
         {<<"logs", "clarify">>, <<"identity", "generate">>,
          <<"identity", "philosophy">>, <<"identity", "use_qa">>}
    [] name = "gen_code" ->
         {<<"input", "main_prompt">>, <<"memory", "specification">>,
          <<"memory", "unit_tests">>, <<"workspace", "code">>,
          <<"identity", "use_qa">>}
    [] name = "execute_entrypoint" -> {<<"workspace", "run.sh">>}
    [] name = "gen_entrypoint" -> {<<"workspace", "all_output.txt">>}
    [] name = "use_feedback" ->
         {<<"identity", "generate">>, <<"identity", "philosophy">>,
          <<"input", "main_prompt">>, <<"workspace", "all_output.txt">>,
          <<"identity", "use_feedback">>, <<"memory", "feedback">>}
    [] name = "fix_code" ->
         {<<"logs", "gen_code">>, <<"identity", "generate">>,
          <<"identity", "philosophy">>, <<"input", "main_prompt">>,
          <<"identity", "fix_code">>}

\* an entry the step reads is absent from the store
Absent(name, d) == {e \in StepReads(name) : ~Has(d[e[1]], e[2])}

\* C10: a step called on a store that lacks an entry the step reads ends in
\* a lookup failure for an absent entry, having sent nothing and written
\* nothing: the store is as it was; the run is aborted, the failed call is
\* its last and no step can run after it.  clarify runs only once its
\* lookups succeeded.
C10_LookupFailureAborts ==
  /\ \A i \in DOMAIN hist :
       LET r == hist[i] IN
       /\ Absent(r.name, r.pre) # {} => r.err
       /\ r.err
            => /\ r.missing \in Absent(r.name, r.pre)
               /\ r.sent = <<>>
               /\ r.writes = {}
               /\ r.post = r.pre
               /\ dbs = r.pre
               /\ i = Len(hist)
               /\ status = "aborted"
  /\ status = "aborted" => (hist # <<>> /\ Last(hist).err /\ ~ENABLED Next)
  /\ cl.pc # "none" => Absent("clarify", dbs) = {}

\* gen_code called on a store without memory["specification"] raised
C10_Witness ==
  /\ hist # <<>>
  /\ Last(hist).name = "gen_code"
  /\ Last(hist).err
  /\ Last(hist).missing = <<"memory", "specification">>
  /\ status = "aborted"

====
